---- MODULE Spec2Model ----
(***************************************************************************)
(* Model of packages/types/lib/values.js: the schema-governed transcoder   *)
(* (Cloner) behind fromJSON, fromDefaultJSON and toJSON, its result        *)
(* builder (Builder) and the paths it hands to recursive calls.            *)
(*                                                                         *)
(* JavaScript values are tagged records [k, v]; an object is the sequence  *)
(* of its own enumerable properties in enumeration order.  Arrays that the *)
(* code mutates in place (paths) live in a heap, so that sharing a path    *)
(* between calls is something the model can express.                       *)
(***************************************************************************)
EXTENDS Integers, Sequences, FiniteSets, TLC

(* ------------------------------------------------------------------ *)
(* Bounds of the checked instance                                       *)
(* ------------------------------------------------------------------ *)
MaxLen == 2
MaxNum == 1

(* ------------------------------------------------------------------ *)
(* JavaScript values                                                    *)
(* ------------------------------------------------------------------ *)
Undefined == [k |-> "undefined", v |-> 0]
Null == [k |-> "null", v |-> 0]
Num(n) == [k |-> "number", v |-> n]
Str(s) == [k |-> "string", v |-> s]
Buf(b) == [k |-> "buffer", v |-> b]
Arr(s) == [k |-> "array", v |-> s]
Obj(s) == [k |-> "object", v |-> s]
DateOf(n) == [k |-> "date", v |-> n]
Prop(key, val) == [key |-> key, val |-> val]

Range(s) == {s[i] : i \in DOMAIN s}

\* typeof any
TypeOf(any) ==
  CASE any.k = "undefined" -> "undefined"
    [] any.k = "number" -> "number"
    [] any.k = "string" -> "string"
    [] OTHER -> "object"

\* !any
Falsy(any) ==
  \/ any.k \in {"undefined", "null"}
  \/ any.k = "number" /\ any.v = 0
  \/ any.k = "string" /\ any.v = <<>>

\* Property keys the model uses, in ascending UTF-16 code unit order (the
\* order of Array.prototype.sort without a comparator).
CodeUnitOrder ==
  << "0", "1", "10", "2", "3", "Inner", "Rec", "a", "b", "bytes", "c", "d",
     "extra", "int", "items", "more", "null", "string", "u", "x", "y" >>

Rank(key) == CHOOSE i \in DOMAIN CodeUnitOrder : CodeUnitOrder[i] = key

\* Canonical array indices among the keys, with their numeric value.
IndexKeys == {"0", "1", "2", "3", "10"}
IndexValue(key) ==
  CASE key = "0" -> 0 [] key = "1" -> 1 [] key = "2" -> 2 [] key = "3" -> 3
    [] key = "10" -> 10
IndexKey(i) == ToString(i)

\* Object.keys(any)
Keys(any) ==
  CASE any.k = "object" -> [i \in DOMAIN any.v |-> any.v[i].key]
    [] any.k \in {"array", "buffer"} -> [i \in DOMAIN any.v |-> IndexKey(i - 1)]
    [] OTHER -> <<>>

\* any[key]
Get(any, key) ==
  CASE any.k = "object" ->
         IF \E i \in DOMAIN any.v : any.v[i].key = key
         THEN any.v[CHOOSE i \in DOMAIN any.v : any.v[i].key = key].val
         ELSE Undefined
    [] any.k = "array" ->
         IF \E i \in DOMAIN any.v : IndexKey(i - 1) = key
         THEN any.v[CHOOSE i \in DOMAIN any.v : IndexKey(i - 1) = key]
         ELSE Undefined
    [] OTHER -> Undefined

\* Position at which a new property lands in the enumeration order of an
\* ordinary object: array indices first, in ascending numeric order, then the
\* other string keys in insertion order.
InsertAt(props, key) ==
  IF key \in IndexKeys
  THEN Cardinality({i \in DOMAIN props :
         props[i].key \in IndexKeys /\ IndexValue(props[i].key) < IndexValue(key)}) + 1
  ELSE Len(props) + 1

\* obj[key] = val
ObjSet(obj, key, val) ==
  LET props == obj.v IN
  IF \E i \in DOMAIN props : props[i].key = key
  THEN Obj([i \in DOMAIN props |->
              IF props[i].key = key THEN Prop(key, val) ELSE props[i]])
  ELSE LET at == InsertAt(props, key) IN
       Obj(SubSeq(props, 1, at - 1) \o <<Prop(key, val)>> \o SubSeq(props, at, Len(props)))

\* keys.sort()
RECURSIVE SortKeys(_)
SortKeys(keys) ==
  IF keys = <<>> THEN <<>>
  ELSE LET least == CHOOSE i \in DOMAIN keys :
                      \A j \in DOMAIN keys : Rank(keys[i]) <= Rank(keys[j])
       IN <<keys[least]>> \o
          SortKeys(SubSeq(keys, 1, least - 1) \o SubSeq(keys, least + 1, Len(keys)))

\* utils.bufferFrom(str, 'binary'): one byte per code unit, its low 8 bits
BufferFromBinary(str) == Buf([i \in DOMAIN str.v |-> str.v[i] % 256])
\* utils.bufferFrom(buf): a copy
BufferFrom(buf) == Buf(buf.v)
\* buf.toString('binary'): one code unit per byte
ToBinaryString(buf) == Str(buf.v)

(* ------------------------------------------------------------------ *)
(* Type Model: the capability interface the cloner consults             *)
(* ------------------------------------------------------------------ *)
NoType == [typeName |-> "undefined"]
Primitive(typeName) == [typeName |-> typeName]
FixedType(size) == [typeName |-> "fixed", size |-> size]
ArrayType(itemsType) == [typeName |-> "array", itemsType |-> itemsType]
MapType(valuesType) == [typeName |-> "map", valuesType |-> valuesType]
Field(name, type, defaultValue) ==
  [name |-> name, type |-> type, defaultValue |-> defaultValue]
RecordType(name, fields) == [typeName |-> "record", name |-> name, fields |-> fields]
ErrorType(name, fields) == [typeName |-> "error", name |-> name, fields |-> fields]
UnionType(typeName, types) == [typeName |-> typeName, types |-> types]
LogicalType(logicalName, underlyingType) ==
  [typeName |-> "logical", logicalName |-> logicalName, underlyingType |-> underlyingType]

TypeNames ==
  { "null", "int", "string", "bytes", "fixed", "array", "map", "record", "error",
    "union:unwrapped", "union:wrapped", "logical" }

\* utils.isType(type) and utils.isType(type, name, ...)
IsType(type) == type.typeName \in TypeNames
IsTypeAmong(type, names) == type.typeName \in names

RECURSIVE BranchName(_)
BranchName(type) ==
  CASE type.typeName \in {"record", "error"} -> type.name
    [] type.typeName = "logical" -> BranchName(type.underlyingType)
    [] OTHER -> type.typeName

\* type.field(name)
HasField(type, name) == \E i \in DOMAIN type.fields : type.fields[i].name = name

\* unionType.type(key)
TypeOfBranch(unionType, key) ==
  IF \E i \in DOMAIN unionType.types : BranchName(unionType.types[i]) = key
  THEN unionType.types[CHOOSE i \in DOMAIN unionType.types :
                          BranchName(unionType.types[i]) = key]
  ELSE NoType

\* branchType.wrap(any)
Wrap(branchType, any) == Obj(<<Prop(BranchName(branchType), any)>>)

\* type.isValid(val) of a primitive or buffer type.  Every number of the model
\* is an integer of 32 bits.
IsValid(type, val) ==
  CASE type.typeName = "null" -> val = Null
    [] type.typeName = "int" -> val.k = "number"
    [] type.typeName = "string" -> val.k = "string"
    [] type.typeName = "bytes" -> val.k = "buffer"
    [] type.typeName = "fixed" -> val.k = "buffer" /\ Len(val.v) = type.size
    [] OTHER -> FALSE

\* type._toValue(any) and type._fromValue(val) of the logical types:
\*   "date" keeps a date as the int of its timestamp and refuses to decode a
\*   negative one; "positive" keeps an int and encodes it only when positive.
ToValue(type, any) ==
  CASE type.logicalName = "date" ->
         IF any.k = "date" THEN [threw |-> FALSE, value |-> Num(any.v)]
         ELSE [threw |-> FALSE, value |-> Undefined]
    [] type.logicalName = "positive" ->
         IF any.k = "number" /\ any.v > 0 THEN [threw |-> FALSE, value |-> any]
         ELSE IF any.k = "number" THEN [threw |-> FALSE, value |-> Undefined]
         ELSE [threw |-> TRUE, value |-> Undefined]

FromValue(type, val) ==
  CASE type.logicalName = "date" ->
         IF val.v < 0 THEN [threw |-> TRUE, value |-> Undefined]
         ELSE [threw |-> FALSE, value |-> DateOf(val.v)]
    [] type.logicalName = "positive" -> [threw |-> FALSE, value |-> val]

\* Deep equality of two values, the order of an object's keys left aside.
RECURSIVE StructEq(_, _)
StructEq(a, b) ==
  IF a.k # b.k THEN FALSE
  ELSE CASE a.k = "object" ->
              /\ Range(Keys(a)) = Range(Keys(b))
              /\ \A key \in Range(Keys(a)) : StructEq(Get(a, key), Get(b, key))
         [] a.k = "array" ->
              /\ Len(a.v) = Len(b.v)
              /\ \A i \in DOMAIN a.v : StructEq(a.v[i], b.v[i])
         [] OTHER -> a = b

\* type.compare(a, b, {allowMaps: true}): 0 when equal
Compare(type, a, b) == IF StructEq(a, b) THEN 0 ELSE 1

\* new Record(args...): positional field values, defaults for the undefined
RecordConstructor(type, args) ==
  Obj([i \in DOMAIN type.fields |->
         Prop(type.fields[i].name,
              IF args[i] = Undefined THEN type.fields[i].defaultValue ELSE args[i])])

\* Validity of an in-memory value under a type.
RECURSIVE Valid(_, _)
Valid(val, type) ==
  CASE type.typeName = "array" ->
         val.k = "array" /\ \A i \in DOMAIN val.v : Valid(val.v[i], type.itemsType)
    [] type.typeName = "map" ->
         val.k = "object" /\ \A i \in DOMAIN val.v : Valid(val.v[i].val, type.valuesType)
    [] type.typeName \in {"record", "error"} ->
         /\ val.k = "object"
         /\ Keys(val) = [i \in DOMAIN type.fields |-> type.fields[i].name]
         /\ \A i \in DOMAIN type.fields : Valid(val.v[i].val, type.fields[i].type)
    [] type.typeName = "union:unwrapped" ->
         \E i \in DOMAIN type.types : Valid(val, type.types[i])
    [] type.typeName = "union:wrapped" ->
         \/ val = Null /\ \E i \in DOMAIN type.types : type.types[i].typeName = "null"
         \/ /\ val.k = "object"
            /\ Len(val.v) = 1
            /\ \E i \in DOMAIN type.types :
                  /\ type.types[i].typeName # "null"
                  /\ BranchName(type.types[i]) = val.v[1].key
                  /\ Valid(val.v[1].val, type.types[i])
    [] type.typeName = "logical" ->
         /\ ~ToValue(type, val).threw
         /\ ToValue(type, val).value # Undefined
         /\ Valid(ToValue(type, val).value, type.underlyingType)
         /\ ~FromValue(type, ToValue(type, val).value).threw
    [] OTHER -> IsValid(type, val)

\* unionType.branchType(any) of an unwrapped union
BranchType(unionType, any) ==
  IF \E i \in DOMAIN unionType.types : Valid(any, unionType.types[i])
  THEN unionType.types[CHOOSE i \in DOMAIN unionType.types :
         /\ Valid(any, unionType.types[i])
         /\ \A j \in 1 .. (i - 1) : ~Valid(any, unionType.types[j])]
  ELSE NoType

(* ------------------------------------------------------------------ *)
(* Paths: arrays on the heap                                            *)
(* ------------------------------------------------------------------ *)
KeyStep(key) == [k |-> "key", v |-> key]
IndexStep(i) == [k |-> "index", v |-> i]

\* var p = path.slice(); p.push(step);  -- a fresh array, one step longer
SharedPush(heap, path, step) ==
  [heap |-> [heap EXCEPT ![path] = Append(@, step)], ref |-> path]
SlicePush(heap, path, step) ==
  [heap |-> Append(heap, Append(heap[path], step)), ref |-> Len(heap) + 1]

(* ------------------------------------------------------------------ *)
(* Builder                                                              *)
(* ------------------------------------------------------------------ *)
\* new Builder().  heap is the memory the call runs in; recorded lists every
\* error added by the call or by a call below it, in the order they were
\* added; thrown names the exception that ended the call, "" when it returned.
Builder(heap) ==
  [value |-> Undefined, errors |-> <<>>, recorded |-> <<>>, heap |-> heap, thrown |-> ""]

isOk(builder) == Len(builder.errors) = 0

\* node is the step sequence from the root to the value the error is about.
addError(builder, desc, names, val, type, path, node) ==
  LET err == [desc |-> desc, names |-> names, value |-> val, expectedType |-> type,
              path |-> path, node |-> node]
  IN [builder EXCEPT !.errors = Append(@, err), !.recorded = Append(@, err)]

copyErrorsFrom(this, builder) ==
  IF Len(builder.errors) > 0
  THEN [this EXCEPT !.errors = @ \o builder.errors]
  ELSE this

\* The caller's view once a recursive call has returned: the memory as the
\* call left it, and the call's errors are on record.
Returned(this, builder) ==
  [this EXCEPT !.heap = builder.heap, !.recorded = @ \o builder.recorded]

Throw(builder, what) == [builder EXCEPT !.thrown = what]

(* ------------------------------------------------------------------ *)
(* Cloner                                                               *)
(* ------------------------------------------------------------------ *)
\* new Cloner(mode, opts)
Cloner(mode, opts) ==
  [mode |-> mode,
   allowUndeclaredFields |-> opts.allowUndeclaredFields,
   omitDefaultValues |-> opts.omitDefaultValues,
   thrown |-> IF opts.omitDefaultValues /\ mode # "TO_JSON"
              THEN "invalid cloner options" ELSE ""]

RECURSIVE clone(_, _, _, _, _, _)

onPrimitive(this, any, type, path, node, heap) ==
  LET builder == Builder(heap)
      isBufferType == IsTypeAmong(type, {"bytes", "fixed"})
  IN IF isBufferType /\ this.mode # "TO_JSON" /\ TypeOf(any) # "string"
     THEN addError(builder, "is not a string", <<>>, any, type, path, node)
     ELSE LET val == IF isBufferType /\ this.mode # "TO_JSON"
                     THEN BufferFromBinary(any) ELSE any
              checked == IF IsValid(type, val)
                         THEN [builder EXCEPT
                                 !.value = IF isBufferType THEN BufferFrom(val) ELSE val]
                         ELSE addError(builder, "invalid value", <<>>, any, type, path, node)
          IN IF this.mode = "TO_JSON" /\ isBufferType
             THEN IF checked.value = Undefined
                  THEN Throw(checked, "TypeError")
                  ELSE [checked EXCEPT !.value = ToBinaryString(@)]
             ELSE checked

onLogical(this, any, type, path, node, heap) ==
  LET builder == Builder(heap)
      encoded == ToValue(type, any)
  IN IF this.mode = "TO_JSON" /\ encoded.threw
     THEN addError(builder, "logical type encoding failed (message)", <<>>,
                   any, type, path, node)
     ELSE IF this.mode = "TO_JSON" /\ encoded.value = Undefined
     THEN addError(builder, "logical type encoding failed", <<>>, any, type, path, node)
     ELSE LET value == IF this.mode = "TO_JSON" THEN encoded.value ELSE any
              underlying == clone(this, value, type.underlyingType, path, node, heap)
          IN IF underlying.thrown # "" \/ ~isOk(underlying) THEN underlying
             ELSE IF this.mode # "TO_JSON"
             THEN LET decoded == FromValue(type, underlying.value)
                  IN IF decoded.threw
                     THEN addError(underlying, "logical type decoding failed (message)",
                                   <<>>, any, type, path, node)
                     ELSE [underlying EXCEPT !.value = decoded.value]
             ELSE underlying

\* for (i = 0; i < any.length; i++) of _onArray, from item i on (1-based)
RECURSIVE onArrayItems(_, _, _, _, _, _, _, _)
onArrayItems(this, any, type, path, node, i, builder, val) ==
  IF i > Len(any.v)
  THEN IF isOk(builder) THEN [builder EXCEPT !.value = Arr(val)] ELSE builder
  ELSE LET itemPath == SlicePush(builder.heap, path, IndexStep(i - 1))
           itemBuilder == clone(this, any.v[i], type.itemsType, itemPath.ref,
                                Append(node, IndexStep(i - 1)), itemPath.heap)
           merged == copyErrorsFrom(Returned(builder, itemBuilder), itemBuilder)
       IN IF itemBuilder.thrown # "" THEN itemBuilder
          ELSE onArrayItems(this, any, type, path, node, i + 1, merged,
                            IF isOk(merged) THEN Append(val, itemBuilder.value) ELSE val)

onArray(this, any, type, path, node, heap) ==
  LET builder == Builder(heap)
  IN IF any.k # "array"
     THEN addError(builder, "is not an array", <<>>, any, type, path, node)
     ELSE onArrayItems(this, any, type, path, node, 1, builder, <<>>)

\* var keys = Object.keys(any).sort();
UnsortedKeys(any) == Keys(any)
MapKeys(any) == SortKeys(Keys(any))

\* for (i = 0; i < keys.length; i++) of _onMap, from key i on (1-based)
RECURSIVE onMapValues(_, _, _, _, _, _, _, _, _)
onMapValues(this, any, type, path, node, keys, i, builder, val) ==
  IF i > Len(keys)
  THEN IF isOk(builder) THEN [builder EXCEPT !.value = val] ELSE builder
  ELSE LET key == keys[i]
           valuePath == SlicePush(builder.heap, path, KeyStep(key))
           valueBuilder == clone(this, Get(any, key), type.valuesType, valuePath.ref,
                                 Append(node, KeyStep(key)), valuePath.heap)
           merged == copyErrorsFrom(Returned(builder, valueBuilder), valueBuilder)
       IN IF valueBuilder.thrown # "" THEN valueBuilder
          ELSE onMapValues(this, any, type, path, node, keys, i + 1, merged,
                           IF isOk(merged) THEN ObjSet(val, key, valueBuilder.value)
                           ELSE val)

onMap(this, any, type, path, node, heap) ==
  LET builder == Builder(heap)
  IN IF Falsy(any) \/ TypeOf(any) # "object"
     THEN addError(builder, "is not a valid object", <<>>, any, type, path, node)
     ELSE onMapValues(this, any, type, path, node, MapKeys(any), 1, builder, Obj(<<>>))

\* The undeclared keys of a record input, in Object.keys order
extraFields(any, type) ==
  SelectSeq(Keys(any), LAMBDA fieldName : ~HasField(type, fieldName))

\* fieldVal = this.clone(defaultVal, field.type, fieldPath).value;
\* the default's builder is dropped, its errors with it
DefaultUsed(builder, defaultBuilder) == Returned(builder, defaultBuilder)

\* The default elision test of a present field
Elided(this, field, fieldAny, fieldValBuilder) ==
  /\ this.omitDefaultValues
  /\ isOk(fieldValBuilder)
  /\ field.defaultValue # Undefined
  /\ Compare(field.type, fieldAny, field.defaultValue) = 0

\* for (i = 0; i < type.fields.length; i++) of _onRecord, from field i on
\* (1-based); st holds builder, missingFields and args.
RECURSIVE onRecordFields(_, _, _, _, _, _, _)
onRecordFields(this, any, type, path, node, i, st) ==
  IF i > Len(type.fields) THEN st
  ELSE
    LET field == type.fields[i]
        fieldAny == Get(any, field.name)
        fieldPath == SlicePush(st.builder.heap, path, KeyStep(field.name))
        fieldNode == Append(node, KeyStep(field.name))
        defaultVal == field.defaultValue
        builder == [st.builder EXCEPT !.heap = fieldPath.heap]
    IN
    IF fieldAny = Undefined /\ defaultVal = Undefined
    THEN onRecordFields(this, any, type, path, node, i + 1,
           [builder |-> builder,
            missingFields |-> Append(st.missingFields, field.name),
            args |-> Append(st.args, Undefined)])
    ELSE IF fieldAny = Undefined
    THEN IF this.mode = "TO_JSON" /\ ~this.omitDefaultValues
         THEN LET defaultBuilder ==
                    clone(this, defaultVal, field.type, fieldPath.ref, fieldNode,
                          fieldPath.heap)
              IN IF defaultBuilder.thrown # ""
                 THEN [st EXCEPT !.builder = defaultBuilder]
                 ELSE onRecordFields(this, any, type, path, node, i + 1,
                        [st EXCEPT !.builder = DefaultUsed(builder, defaultBuilder),
                                   !.args = Append(@, defaultBuilder.value)])
         ELSE onRecordFields(this, any, type, path, node, i + 1,
                [st EXCEPT !.builder = builder, !.args = Append(@, Undefined)])
    ELSE LET fieldValBuilder ==
               clone(this, fieldAny, field.type, fieldPath.ref, fieldNode, fieldPath.heap)
             merged == copyErrorsFrom(Returned(builder, fieldValBuilder), fieldValBuilder)
             fieldVal == IF Elided(this, field, fieldAny, fieldValBuilder)
                         THEN Undefined ELSE fieldValBuilder.value
         IN IF fieldValBuilder.thrown # ""
            THEN [st EXCEPT !.builder = fieldValBuilder]
            ELSE onRecordFields(this, any, type, path, node, i + 1,
                   [st EXCEPT !.builder = merged, !.args = Append(@, fieldVal)])

\* builder.value = {}; for (...) if (fieldVal !== undefined) builder.value[name] = fieldVal;
RECURSIVE RecordJSON(_, _, _, _)
RecordJSON(type, args, i, value) ==
  IF i > Len(type.fields) THEN value
  ELSE RecordJSON(type, args, i + 1,
                  IF args[i + 1] # Undefined
                  THEN ObjSet(value, type.fields[i].name, args[i + 1])
                  ELSE value)

onRecord(this, any, type, path, node, heap) ==
  LET builder == Builder(heap)
  IN IF Falsy(any) \/ TypeOf(any) # "object"
     THEN addError(builder, "is not a valid object", <<>>, any, type, path, node)
     ELSE
       LET extra == extraFields(any, type)
           checked == IF ~this.allowUndeclaredFields /\ Len(extra) > 0
                      THEN addError(builder, "contains undeclared field(s)", extra,
                                    any, type, path, node)
                      ELSE builder
           st == onRecordFields(this, any, type, path, node, 1,
                   [builder |-> checked, missingFields |-> <<>>, args |-> <<Undefined>>])
           complete == IF Len(st.missingFields) > 0
                       THEN addError(st.builder, "is missing field(s)", st.missingFields,
                                     any, type, path, node)
                       ELSE st.builder
       IN IF st.builder.thrown # "" THEN st.builder
          ELSE IF ~isOk(complete) THEN complete
          ELSE IF this.mode = "TO_JSON"
          THEN [complete EXCEPT !.value = RecordJSON(type, st.args, 1, Obj(<<>>))]
          ELSE [complete EXCEPT
                  !.value = RecordConstructor(type, SubSeq(st.args, 2, Len(st.args)))]

\* for (...) if (unionType.types[i].typeName === 'null') ...
FirstIsNull(unionType) == unionType.types[1].typeName = "null"
HasNullBranch(unionType) ==
  \E i \in DOMAIN unionType.types : unionType.types[i].typeName = "null"

\* branchType = unionType.types[0];
LastBranch(unionType) == unionType.types[Len(unionType.types)]
FirstBranch(unionType) == unionType.types[1]

\* The value a union yields once its branch has been cloned
BareBranchValue(this, isWrapped, branchType, value) == value
UnionValue(this, isWrapped, branchType, value) ==
  IF this.mode = "TO_JSON" THEN ObjSet(Obj(<<>>), BranchName(branchType), value)
  ELSE IF ~isWrapped THEN value
  ELSE Wrap(branchType, value)

\* _onUnion from "if (typeof any != 'object')" on: any is the wrapped value
onWrapped(this, any, unionType, path, node, heap) ==
  LET builder == Builder(heap)
      isWrapped == unionType.typeName = "union:wrapped"
      keys == Keys(any)
  IN IF TypeOf(any) # "object"
     THEN addError(builder, "is not an object", <<>>, any, unionType, path, node)
     ELSE IF Len(keys) # 1
     THEN addError(builder, "has keys", keys, any, unionType, path, node)
     ELSE
       LET key == keys[1]
           branchType == TypeOfBranch(unionType, key)
           branchPath == SlicePush(heap, path, KeyStep(key))
           branchBuilder == clone(this, Get(any, key), branchType, branchPath.ref,
                                  Append(node, KeyStep(key)), branchPath.heap)
           merged == copyErrorsFrom(Returned(builder, branchBuilder), branchBuilder)
       IN IF branchType = NoType
          THEN addError(builder, "contains an unknown branch", <<key>>, any, unionType,
                        path, node)
          ELSE IF branchBuilder.thrown # "" THEN branchBuilder
          ELSE IF isOk(branchBuilder)
          THEN [merged EXCEPT
                  !.value = UnionValue(this, isWrapped, branchType, branchBuilder.value)]
          ELSE merged

onUnion(this, any, unionType, path, node, heap) ==
  LET builder == Builder(heap)
      isWrapped == unionType.typeName = "union:wrapped"
  IN IF any = Null
     THEN IF HasNullBranch(unionType)
          THEN [builder EXCEPT !.value = Null]
          ELSE addError(builder, "is null", <<>>, any, unionType, path, node)
     ELSE IF this.mode = "FROM_DEFAULT_JSON"
     THEN IF FirstBranch(unionType).typeName = "null"
          THEN addError(builder, "does not match first (null)", <<>>, any, unionType,
                        path, node)
          ELSE onWrapped(this, Wrap(FirstBranch(unionType), any), unionType, path, node,
                         heap)
     ELSE IF this.mode = "TO_JSON" /\ ~isWrapped
     THEN IF BranchType(unionType, any) = NoType
          THEN addError(builder, "is not a valid branch", <<>>, any, unionType, path, node)
          ELSE onWrapped(this, Wrap(BranchType(unionType, any), any), unionType, path,
                         node, heap)
     ELSE onWrapped(this, any, unionType, path, node, heap)

clone(this, any, type, path, node, heap) ==
  IF ~IsType(type) THEN Throw(Builder(heap), "not a type")
  ELSE CASE type.typeName = "array" -> onArray(this, any, type, path, node, heap)
         [] type.typeName = "map" -> onMap(this, any, type, path, node, heap)
         [] type.typeName \in {"error", "record"} ->
              onRecord(this, any, type, path, node, heap)
         [] type.typeName \in {"union:unwrapped", "union:wrapped"} ->
              onUnion(this, any, type, path, node, heap)
         [] OTHER -> IF IsTypeAmong(type, {"logical"})
                     THEN onLogical(this, any, type, path, node, heap)
                     ELSE onPrimitive(this, any, type, path, node, heap)

\* Builder.prototype.build: the value, or the aggregated error
build(builder, type) ==
  IF builder.thrown # ""
  THEN [status |-> builder.thrown, value |-> Undefined, errors |-> <<>>,
        recorded |-> builder.recorded, heap |-> builder.heap]
  ELSE IF isOk(builder)
  THEN [status |-> "ok", value |-> builder.value, errors |-> <<>>,
        recorded |-> builder.recorded, heap |-> builder.heap]
  ELSE [status |-> "ERR_AVRO_INCOMPATIBLE_VALUE", value |-> Undefined,
        errors |-> builder.errors, recorded |-> builder.recorded, heap |-> builder.heap]

\* function clone(mode, any, type, opts):
\*   new Cloner(mode, opts).clone(any, type, []).build(type)
Transcode(mode, any, type, opts) ==
  LET this == Cloner(mode, opts)
  IN IF this.thrown # ""
     THEN [status |-> this.thrown, value |-> Undefined, errors |-> <<>>,
           recorded |-> <<>>, heap |-> <<>>]
     ELSE build(clone(this, any, type, 1, <<>>, << <<>> >>), type)

(* ------------------------------------------------------------------ *)
(* The schemas and inputs of the checked instance                       *)
(* ------------------------------------------------------------------ *)
NullT == Primitive("null")
IntT == Primitive("int")
StringT == Primitive("string")
BytesT == Primitive("bytes")
FixedT == FixedType(1)
DateT == LogicalType("date", IntT)
PositiveT == LogicalType("positive", IntT)
NotAType == [typeName |-> "not a type"]

UnwrappedIntNull == UnionType("union:unwrapped", <<IntT, NullT>>)
UnwrappedIntString == UnionType("union:unwrapped", <<IntT, StringT>>)
WrappedNullString == UnionType("union:wrapped", <<NullT, StringT>>)
WrappedStringInt == UnionType("union:wrapped", <<StringT, IntT>>)

Inner ==
  ErrorType("Inner", << Field("x", IntT, Undefined), Field("y", BytesT, Buf(<<65>>)) >>)
WithMap ==
  RecordType("Rec", << Field("a", IntT, Undefined),
                       Field("b", MapType(IntT),
                             Obj(<<Prop("a", Num(0)), Prop("b", Num(0))>>)) >>)
WithDefaults ==
  RecordType("Rec", << Field("c", PositiveT, Num(0)),
                       Field("d", NullT, Undefined),
                       Field("a", DateT, DateOf(0)) >>)
Outer ==
  RecordType("Rec", << Field("items", ArrayType(Inner), Undefined),
                       Field("d", NullT, Undefined) >>)

Types ==
  { NullT, IntT, StringT, BytesT, FixedT, DateT, PositiveT, NotAType,
    ArrayType(BytesT), ArrayType(UnwrappedIntString), MapType(IntT), MapType(FixedT),
    UnwrappedIntNull, UnwrappedIntString, WrappedNullString, WrappedStringInt,
    Inner, WithMap, WithDefaults, Outer }

SeqsUpTo(S, n) == UNION {[1 .. m -> S] : m \in 0 .. n}

\* Key sequences an object can enumerate: no key twice, the array indices
\* first and in ascending numeric order.
EnumerationOrder(keys) ==
  /\ \A i, j \in DOMAIN keys : i < j => keys[i] # keys[j]
  /\ \A i, j \in DOMAIN keys : i < j =>
        /\ keys[j] \in IndexKeys => keys[i] \in IndexKeys
        /\ (keys[i] \in IndexKeys /\ keys[j] \in IndexKeys) =>
              IndexValue(keys[i]) < IndexValue(keys[j])
KeySeqs(K, n) == {keys \in SeqsUpTo(K, n) : EnumerationOrder(keys)}

Objects(K, V, n) ==
  UNION { {Obj([i \in DOMAIN keys |-> Prop(keys[i], vals[i])]) :
             vals \in [DOMAIN keys -> V]} : keys \in KeySeqs(K, n) }

\* The objects over the fields of a record: field i absent or one of choices[i]
RECURSIVE FieldObjects(_, _, _)
FieldObjects(fields, choices, i) ==
  IF i > Len(fields) THEN {Obj(<<>>)}
  ELSE LET rest == FieldObjects(fields, choices, i + 1)
       IN rest \cup
          {Obj(<<Prop(fields[i].name, val)>> \o obj.v) : val \in choices[i], obj \in rest}

Reversed(obj) == Obj([i \in DOMAIN obj.v |-> obj.v[Len(obj.v) + 1 - i]])

\* Candidate inputs of a type, valid and invalid, in memory and JSON form.
\* n bounds the length of arrays and the number of map keys (a nested array
\* is one shorter); level is the nesting depth of the type, and the deeper a
\* type the fewer its inputs.
RECURSIVE Inputs(_, _, _)
Inputs(type, n, level) ==
  CASE type.typeName = "null" -> {Null, Num(0)}
    [] type.typeName = "int" ->
         IF level >= 2 THEN {Num(0), Str(<<65>>)}
         ELSE {Num(i) : i \in 0 .. MaxNum} \cup {Str(<<65>>)}
                \cup (IF level = 0 THEN {Null, Undefined} ELSE {})
    [] type.typeName = "string" ->
         {Str(<<65>>), Num(0)}
           \cup (IF level = 0 THEN {Str(<<>>), Str(<<321, 65>>)} ELSE {})
    [] type.typeName = "bytes" ->
         {Buf(<<65>>), Str(<<65>>), Num(0)}
           \cup (IF level = 0 THEN {Buf(<<>>), Str(<<>>), Str(<<321>>), Null} ELSE {})
    [] type.typeName = "fixed" ->
         {Buf(<<65>>), Str(<<65>>), Buf(<<>>)}
           \cup (IF level = 0
                 THEN {Str(<<>>), Str(<<321>>), Str(<<65, 65>>), Num(0)} ELSE {})
    [] type.typeName = "logical" ->
         {Num(i) : i \in 0 .. MaxNum} \cup {DateOf(0), Str(<<65>>)}
           \cup (IF level = 0
                 THEN {DateOf(i) : i \in 0 .. MaxNum} \cup {Num(-1), Null} ELSE {})
    [] type.typeName = "array" ->
         {Arr(s) : s \in SeqsUpTo(Inputs(type.itemsType, n - 1, level + 1),
                                   IF level = 0 THEN n ELSE n - 1)}
           \cup (IF level = 0 THEN {Null, Num(0), Obj(<<>>)} ELSE {Num(0)})
    [] type.typeName = "map" ->
         Objects(IF level = 0 THEN {"10", "2", "a", "b"} ELSE {"a", "b"},
                 Inputs(type.valuesType, n - 1, level + 1), n)
           \cup (IF level = 0 THEN {Null, Num(0), Str(<<65>>)} ELSE {Num(0)})
    [] type.typeName \in {"record", "error"} ->
         LET objs == FieldObjects(type.fields,
                       [i \in DOMAIN type.fields |->
                          Inputs(type.fields[i].type, n, level + 1)], 1)
         IN IF level = 0
            THEN objs \cup {Reversed(obj) : obj \in objs}
                   \cup {Obj(obj.v \o <<Prop("extra", Num(0))>>) : obj \in objs}
                   \cup {Obj(<<Prop("more", Null)>> \o obj.v \o <<Prop("extra", Num(0))>>) :
                           obj \in objs}
                   \cup {Null, Num(0), Str(<<65>>), Arr(<<>>)}
            ELSE objs \cup {Num(0)}
    [] type.typeName \in {"union:unwrapped", "union:wrapped"} ->
         LET bare == UNION {Inputs(type.types[i], n, level + 1) : i \in DOMAIN type.types}
             wrapped == UNION { {Wrap(type.types[i], val) :
                                   val \in Inputs(type.types[i], n, level + 1)} :
                                i \in DOMAIN type.types }
         IN bare \cup wrapped \cup {Null}
              \cup (IF level = 0
                    THEN {Obj(<<>>), Obj(<<Prop("x", Num(0))>>),
                          Obj(<<Prop("int", Num(0)), Prop("string", Str(<<65>>))>>)}
                    ELSE {})
    [] OTHER -> {Num(0)}

Options == [allowUndeclaredFields : BOOLEAN, omitDefaultValues : BOOLEAN]

(* ------------------------------------------------------------------ *)
(* The entry points                                                     *)
(* ------------------------------------------------------------------ *)
VARIABLES pc, call, outcome, encoded
vars == <<pc, call, outcome, encoded>>

NoCall ==
  [mode |-> "", any |-> Undefined, type |-> NoType,
   opts |-> [allowUndeclaredFields |-> FALSE, omitDefaultValues |-> FALSE]]
NoOutcome ==
  [status |-> "", value |-> Undefined, errors |-> <<>>, recorded |-> <<>>, heap |-> <<>>]

Init ==
  /\ pc = "ready"
  /\ call = NoCall
  /\ outcome = NoOutcome
  /\ encoded = NoCall

Run(mode, any, type, opts) ==
  /\ call' = [mode |-> mode, any |-> any, type |-> type, opts |-> opts]
  /\ outcome' = Transcode(mode, any, type, opts)

\* toJSON(any, type, opts)
toJSON ==
  /\ pc = "ready"
  /\ \E type \in Types : \E any \in Inputs(type, MaxLen, 0) : \E opts \in Options :
       Run("TO_JSON", any, type, opts)
  /\ pc' = "returned"
  /\ encoded' = NoCall

\* fromJSON(any, type, opts), of any input or of what toJSON just returned
fromJSON ==
  \/ /\ pc = "ready"
     /\ \E type \in Types : \E any \in Inputs(type, MaxLen, 0) : \E opts \in Options :
          Run("FROM_JSON", any, type, opts)
     /\ pc' = "returned"
     /\ encoded' = NoCall
  \/ /\ pc = "returned"
     /\ call.mode = "TO_JSON"
     /\ outcome.status = "ok"
     /\ \E allow \in BOOLEAN :
          Run("FROM_JSON", outcome.value, call.type,
              [allowUndeclaredFields |-> allow, omitDefaultValues |-> FALSE])
     /\ pc' = "decoded"
     /\ encoded' = call

\* fromDefaultJSON(any, type, opts)
fromDefaultJSON ==
  /\ pc = "ready"
  /\ \E type \in Types : \E any \in Inputs(type, MaxLen, 0) : \E opts \in Options :
       Run("FROM_DEFAULT_JSON", any, type, opts)
  /\ pc' = "returned"
  /\ encoded' = NoCall

Next == toJSON \/ fromJSON \/ fromDefaultJSON

Spec == Init /\ [][Next]_vars

(* ------------------------------------------------------------------ *)
(* Properties                                                           *)
(* ------------------------------------------------------------------ *)
\* A call has returned or raised, and its Cloner was constructed.
Cloned == pc # "ready" /\ outcome.status # "invalid cloner options"
IsUnion(type) == type.typeName \in {"union:unwrapped", "union:wrapped"}
IsRecord(type) == type.typeName \in {"record", "error"}
ObjectLike(any) == ~Falsy(any) /\ TypeOf(any) = "object"

\* C1 (round trip): for every value valid under its type, toJSON succeeds,
\* with or without omitDefaultValues, and fromJSON of what it returned
\* succeeds with a value structurally equal to the one encoded, the elided
\* fields being back as their schema default.
RoundTrip ==
  /\ (pc = "returned" /\ call.mode = "TO_JSON" /\ Valid(call.any, call.type))
        => outcome.status = "ok"
  /\ (pc = "decoded" /\ Valid(encoded.any, encoded.type))
        => /\ outcome.status = "ok"
           /\ StructEq(outcome.value, encoded.any)

\* A record whose map field equals its default up to key order was encoded
\* with omitDefaultValues, the field was elided, and the output was decoded.
RoundTripWitness ==
  /\ pc = "decoded"
  /\ encoded.type = WithMap
  /\ encoded.opts.omitDefaultValues
  /\ Valid(encoded.any, encoded.type)
  /\ Keys(Get(encoded.any, "b")) = <<"b", "a">>
  /\ Get(call.any, "b") = Undefined
  /\ Keys(Get(outcome.value, "b")) = <<"a", "b">>

\* C7 (union null handling): in every mode, for wrapped and unwrapped unions,
\* the literal null against a union gives the value null and no error when
\* one of the branches, at any position, is the null type, and otherwise
\* exactly one "is null" error and no value.
UnionNullHandling ==
  (Cloned /\ IsUnion(call.type) /\ call.any = Null) =>
     IF \E i \in DOMAIN call.type.types : call.type.types[i] = NullT
     THEN outcome.status = "ok" /\ outcome.value = Null /\ outcome.errors = <<>>
     ELSE /\ outcome.status = "ERR_AVRO_INCOMPATIBLE_VALUE"
          /\ Len(outcome.errors) = 1
          /\ outcome.errors[1].desc = "is null"
          /\ outcome.value = Undefined

\* null was decoded as a default against a union whose null branch is last.
UnionNullWitness ==
  /\ Cloned
  /\ call.mode = "FROM_DEFAULT_JSON"
  /\ call.type = UnwrappedIntNull
  /\ call.any = Null
  /\ outcome.status = "ok"

\* Whether a value a union decoded belongs to the given branch.
InBranch(value, unionType, branchType) ==
  IF unionType.typeName = "union:unwrapped" THEN Valid(value, branchType)
  ELSE /\ value.k = "object"
       /\ Keys(value) = <<BranchName(branchType)>>
       /\ Valid(value.v[1].val, branchType)

\* C9 as stated (positional default decoding): whenever fromDefaultJSON
\* succeeds on a union, the value belongs to the union's first branch.
DefaultIsFirstBranch ==
  (Cloned /\ call.mode = "FROM_DEFAULT_JSON" /\ IsUnion(call.type)
     /\ outcome.status = "ok")
    => InBranch(outcome.value, call.type, call.type.types[1])

\* C9 as amended: whenever fromDefaultJSON succeeds on a union for an input
\* other than the literal null, the value belongs to the union's first
\* branch; for the literal null it is null, whatever the first branch is.
DefaultIsFirstBranchUnlessNull ==
  (Cloned /\ call.mode = "FROM_DEFAULT_JSON" /\ IsUnion(call.type)
     /\ outcome.status = "ok")
    => IF call.any = Null THEN outcome.value = Null
       ELSE InBranch(outcome.value, call.type, call.type.types[1])

\* A string default was decoded against a wrapped union of string and int.
DefaultIsFirstBranchWitness ==
  /\ Cloned
  /\ call.mode = "FROM_DEFAULT_JSON"
  /\ call.type = WrappedStringInt
  /\ call.any = Str(<<65>>)
  /\ outcome.status = "ok"
  /\ outcome.value = Wrap(StringT, Str(<<65>>))

\* C10 (path isolation): at the end of a traversal the root path is still
\* empty and the path stored in each error is the step sequence from the
\* root to the value the error is about: no path was changed after it was
\* handed to a call or stored, and no two values share one.
PathIsolation ==
  (Cloned /\ outcome.status # "not a type") =>
     /\ outcome.heap[1] = <<>>
     /\ \A i \in DOMAIN outcome.recorded :
           outcome.heap[outcome.recorded[i].path] = outcome.recorded[i].node
     /\ \A i \in DOMAIN outcome.errors :
           outcome.heap[outcome.errors[i].path] = outcome.errors[i].node

\* Two fields of one record, itself an item of an array field, are in error.
PathIsolationWitness ==
  /\ Cloned
  /\ call.type = Outer
  /\ \E i, j \in DOMAIN outcome.errors :
        /\ outcome.errors[i].node = <<KeyStep("items"), IndexStep(0), KeyStep("x")>>
        /\ outcome.errors[j].node = <<KeyStep("items"), IndexStep(0), KeyStep("y")>>

\* The objects that hold the same key-value pairs as obj, in every order in
\* which an object can enumerate them.
Orderings(obj) ==
  LET n == DOMAIN obj.v
      perms == {p \in [n -> n] : \A i, j \in n : i # j => p[i] # p[j]}
  IN {other \in {Obj([i \in n |-> obj.v[p[i]]]) : p \in perms} :
        EnumerationOrder(Keys(other))}

Ascending(keys) == \A i, j \in DOMAIN keys : i < j => Rank(keys[i]) < Rank(keys[j])

\* A map input was cloned; every other enumeration order of the same pairs
\* gives the same outcome, and the errors come in ascending order of the key
\* they are under.
SameForEveryOrder ==
  /\ \A other \in Orderings(call.any) :
        LET o == Transcode(call.mode, other, call.type, call.opts)
        IN /\ o.status = outcome.status
           /\ o.value = outcome.value
           /\ o.errors = outcome.errors
  /\ \A i, j \in DOMAIN outcome.errors :
        i < j => Rank(outcome.errors[i].node[1].v) <= Rank(outcome.errors[j].node[1].v)

\* C6 as stated (map key ordering): two map inputs holding the same pairs in
\* different iteration orders are visited in the same ascending lexicographic
\* key order, give the same sequence of errors and, on success, an output map
\* whose keys are in ascending lexicographic order.
MapKeyOrdering ==
  (Cloned /\ call.type.typeName = "map" /\ call.any.k = "object") =>
     /\ SameForEveryOrder
     /\ outcome.status = "ok" => Ascending(Keys(outcome.value))

\* C6 as amended: the same, but of the output map's keys only those that are
\* not array indices enumerate in ascending lexicographic order; they follow
\* the array indices, which enumerate in ascending numeric order.
MapKeyOrderingButIndices ==
  (Cloned /\ call.type.typeName = "map" /\ call.any.k = "object") =>
     /\ SameForEveryOrder
     /\ outcome.status = "ok" =>
           /\ outcome.value.k = "object"
           /\ Range(Keys(outcome.value)) = Range(Keys(call.any))
           /\ EnumerationOrder(Keys(outcome.value))
           /\ Ascending(SelectSeq(Keys(outcome.value), LAMBDA key : key \notin IndexKeys))

\* A map that enumerates b before a was cloned into one that enumerates a
\* before b.
MapKeyOrderingWitness ==
  /\ Cloned
  /\ call.type = MapType(IntT)
  /\ Keys(call.any) = <<"b", "a">>
  /\ outcome.status = "ok"
  /\ Keys(outcome.value) = <<"a", "b">>

\* The errors of the outcome that the root value itself is charged with.
RootErrors(desc) ==
  {i \in DOMAIN outcome.errors :
     outcome.errors[i].desc = desc /\ outcome.errors[i].node = <<>>}

\* C2 (aggregate error reporting): the error list of the root builder holds
\* every error recorded by any clone call of the traversal (array item, map
\* value, present record field, transcoded default of an absent record field,
\* union branch, underlying type), each once and in traversal order.
AggregateErrors ==
  (Cloned /\ outcome.status \in {"ok", "ERR_AVRO_INCOMPATIBLE_VALUE"})
    => outcome.errors = outcome.recorded

\* C8 (data errors are accumulated, never thrown): over recognized types no
\* call raises anything but the aggregated ERR_AVRO_INCOMPATIBLE_VALUE, in any
\* mode, and a value that a primitive or buffer type's isValid rejects gives
\* exactly one "invalid value" error.
DataErrorsAccumulated ==
  (Cloned /\ call.type # NotAType) =>
     /\ outcome.status \in {"ok", "ERR_AVRO_INCOMPATIBLE_VALUE"}
     /\ LET isBufferType == IsTypeAmong(call.type, {"bytes", "fixed"})
            decoded == isBufferType /\ call.mode # "TO_JSON"
            val == IF decoded THEN BufferFromBinary(call.any) ELSE call.any
        IN ( /\ IsTypeAmong(call.type, {"null", "int", "string", "bytes", "fixed"})
             /\ decoded => TypeOf(call.any) = "string"
             /\ ~IsValid(call.type, val) )
           => /\ outcome.status = "ERR_AVRO_INCOMPATIBLE_VALUE"
              /\ Len(outcome.errors) = 1
              /\ outcome.errors[1].desc = "invalid value"

FieldNames(type) == [i \in DOMAIN type.fields |-> type.fields[i].name]

\* C5 (default elision): when toJSON succeeds on a record, with
\* omitDefaultValues the output has a key for a field exactly when the field
\* has no default or is present and differs from its default (map key order
\* left aside); without it the output has a key for every field, an absent
\* field with a default appearing as its transcoded default.  The keys are in
\* schema field order.
DefaultElision ==
  (Cloned /\ call.mode = "TO_JSON" /\ IsRecord(call.type) /\ outcome.status = "ok") =>
     /\ \A i \in DOMAIN call.type.fields :
           LET field == call.type.fields[i]
               fieldAny == Get(call.any, field.name)
               hasKey == field.name \in Range(Keys(outcome.value))
           IN IF call.opts.omitDefaultValues
              THEN hasKey <=>
                     \/ field.defaultValue = Undefined
                     \/ /\ fieldAny # Undefined
                        /\ Compare(field.type, fieldAny, field.defaultValue) # 0
              ELSE /\ hasKey
                   /\ (fieldAny = Undefined /\ field.defaultValue # Undefined) =>
                         Get(outcome.value, field.name)
                           = Transcode("TO_JSON", field.defaultValue, field.type,
                                       call.opts).value
     /\ Keys(outcome.value)
          = SelectSeq(FieldNames(call.type),
                      LAMBDA name : name \in Range(Keys(outcome.value)))

\* C3 (missing required fields): in every mode a record input that is an
\* object gets exactly one "is missing N field(s)" error when some declared
\* field is absent and has no default, and none otherwise; the error names
\* those fields in schema order and comes after the errors of the fields.
MissingFields ==
  (Cloned /\ IsRecord(call.type) /\ ObjectLike(call.any)) =>
     LET missing == SelectSeq(call.type.fields,
                              LAMBDA field : /\ Get(call.any, field.name) = Undefined
                                             /\ field.defaultValue = Undefined)
         found == RootErrors("is missing field(s)")
     IN IF missing = <<>> THEN found = {}
        ELSE /\ found = {Len(outcome.errors)}
             /\ outcome.errors[Len(outcome.errors)].names
                  = [i \in DOMAIN missing |-> missing[i].name]

\* An outcome as a caller sees it, the offending values left aside.
Seen(o) ==
  [status |-> o.status, value |-> o.value,
   errors |-> [i \in DOMAIN o.errors |->
                 [desc |-> o.errors[i].desc, names |-> o.errors[i].names,
                  node |-> o.errors[i].node]]]

\* C4 (undeclared field rejection): without allowUndeclaredFields a record
\* input with undeclared keys fails with exactly one "contains N undeclared
\* field(s)" error naming them in input key order; with it there is no such
\* error, the keys are not in the result, and the outcome is that of the input
\* without them.
UndeclaredFields ==
  (Cloned /\ IsRecord(call.type) /\ ObjectLike(call.any)) =>
     LET extra == extraFields(call.any, call.type)
         found == RootErrors("contains undeclared field(s)")
         declared == IF extra = <<>> THEN call.any
                     ELSE Obj(SelectSeq(call.any.v,
                                        LAMBDA prop : HasField(call.type, prop.key)))
     IN IF call.opts.allowUndeclaredFields
        THEN /\ found = {}
             /\ outcome.status = "ok" =>
                   \A i \in DOMAIN extra : extra[i] \notin Range(Keys(outcome.value))
             /\ Seen(outcome)
                  = Seen(Transcode(call.mode, declared, call.type, call.opts))
        ELSE extra # <<>> =>
               /\ outcome.status = "ERR_AVRO_INCOMPATIBLE_VALUE"
               /\ found = {1}
               /\ outcome.errors[1].names = extra

====
